---- MODULE Spec2Model ----
(***************************************************************************)
(* Model of custom_components/open_route_service/sensor.py: the travel     *)
(* time sensor (OpenRouteTravelTimeSensor), its data object                *)
(* (OpenRouteTravelTimeData), the route summary (_get_route_from_steps)    *)
(* and the platform configuration schema (PLATFORM_SCHEMA).                *)
(*                                                                         *)
(* Strings the code splits, formats or matches by prefix (entity ids,      *)
(* entity states, location strings) are sequences of tokens, with "." and  *)
(* "," as tokens of their own: "zone.home" is <<"zone", ".", "home">>.     *)
(* Other strings (road names, labels) are TLA+ strings.                    *)
(* An Optional value is <<>> (None) or <<v>>.                              *)
(***************************************************************************)
EXTENDS Integers, Sequences, FiniteSets, TLC

VARIABLES
    hass,                   \* hass.states: entity id -> Optional State
    origin_entity_id,       \* sensor._origin_entity_id (Optional entity id)
    destination_entity_id,  \* sensor._destination_entity_id
    data,                   \* the OpenRouteTravelTimeData object
    lastCalls,              \* remote calls made by the latest update()
    raised,                 \* the latest async_update ended in an exception
    op,                     \* the operation that produced the current state
    steps_in,               \* input of _get_route_from_steps
    road_names_out,         \* road_names when its loop has ended
    route_out,              \* Optional result of _get_route_from_steps
    config,                 \* platform configuration handed to the schema
    cfg_status,             \* "idle", "new", "accepted", "rejected", "setup"
    setup_origin,           \* origin handed to the sensor by setup (Optional)
    setup_destination       \* destination handed to the sensor by setup

vars == <<hass, origin_entity_id, destination_entity_id, data, lastCalls,
          raised, op, steps_in, road_names_out, route_out, config, cfg_status,
          setup_origin, setup_destination>>

sensorVars == <<hass, origin_entity_id, destination_entity_id, data,
                lastCalls, raised, op>>
routeVars == <<steps_in, road_names_out, route_out>>
configVars == <<config, cfg_status, setup_origin, setup_destination>>

None == <<>>
Some(v) == <<v>>
Val(o) == o[1]

-----------------------------------------------------------------------------
(* String helpers on token sequences *)

\* s.split(sep): the pieces of s between the sep tokens
RECURSIVE Split(_, _)
Split(s, sep) ==
    IF \A i \in 1..Len(s) : s[i] # sep
    THEN <<s>>
    ELSE LET k == CHOOSE i \in 1..Len(s) :
                    s[i] = sep /\ \A j \in 1..(i - 1) : s[j] # sep
         IN  <<SubSeq(s, 1, k - 1)>> \o Split(SubSeq(s, k + 1, Len(s)), sep)

\* s.split(sep, 1)[0]
SplitFirst(s, sep) == Split(s, sep)[1]

\* list(...)[::-1]
Reverse(s) == [i \in 1..Len(s) |-> s[Len(s) + 1 - i]]

\* s.startswith(p)
StartsWith(s, p) == Len(s) >= Len(p) /\ SubSeq(s, 1, Len(p)) = p

\* str(x) of a non-negative float held in tenths: 525 is 52.5
FloatStr(x) == <<ToString(x \div 10), ".", ToString(x % 10)>>

-----------------------------------------------------------------------------
(* Program constants *)

TRACKABLE_DOMAINS == {<<"device_tracker">>, <<"sensor">>, <<"zone">>, <<"person">>}
CONF_UNIT_SYSTEM_METRIC == "metric"
CONF_UNIT_SYSTEM_IMPERIAL == "imperial"
UNITS == {CONF_UNIT_SYSTEM_METRIC, CONF_UNIT_SYSTEM_IMPERIAL}
TRAVEL_MODE_CAR == "driving-car"
ROUTE_MODE_FASTEST == "fastest"

-----------------------------------------------------------------------------
(* The entities and values of the modelled installation *)

TrackerId == <<"device_tracker", ".", "phone">>
SensorId == <<"sensor", ".", "address">>
ZoneId == <<"zone", ".", "home">>
EntityIds == {TrackerId, SensorId, ZoneId}

NoAttrs == [latitude |-> None, longitude |-> None]
AttrsA == [latitude |-> Some(525), longitude |-> Some(134)]
AttrsZ == [latitude |-> Some(481), longitude |-> Some(116)]

\* the states and attributes each entity takes
StateValues(id) ==
    IF id = TrackerId THEN {<<"home">>, <<"not_home">>}
    ELSE IF id = SensorId THEN {<<"home">>, <<"Berlin">>}
    ELSE {<<"zoning">>}
AttrValues(id) ==
    IF id = TrackerId THEN {NoAttrs, AttrsA}
    ELSE IF id = SensorId THEN {NoAttrs}
    ELSE {NoAttrs, AttrsZ}

StaticOrigin == FloatStr(520) \o <<",">> \o FloatStr(130)
StaticDestination == FloatStr(485) \o <<",">> \o FloatStr(115)
OriginConfigs == {StaticOrigin, TrackerId, SensorId}
DestinationConfigs == {StaticDestination, ZoneId}

\* answers of the remote service
DirectionsResponses == {
    [metadata |-> [attribution |-> "openrouteservice.org"],
     routes |-> <<[summary |-> [duration |-> 90, distance |-> 2000],
                   segments |-> <<[steps |-> <<[name |-> "-"],
                                               [name |-> "Main St"],
                                               [name |-> "Main St"]>>]>>]>>],
    [metadata |-> [attribution |-> "openrouteservice.org"],
     routes |-> <<[summary |-> [duration |-> 1830, distance |-> 16093],
                   segments |-> <<[steps |-> <<[name |-> "Main St"],
                                               [name |-> "-"],
                                               [name |-> "Oak Ave"]>>]>>]>>] }
Labels == {"Alexanderplatz, Berlin", "Marienplatz, Munich"}
ReverseResponses ==
    { [features |-> <<[properties |-> [label |-> l]]>>] : l \in Labels }

\* which remote call of update() raises: none, directions, reverse geocode of
\* the destination, reverse geocode of the origin
Failures == {"none", "directions", "reverse_destination", "reverse_origin"}

-----------------------------------------------------------------------------
(* OpenRouteTravelTimeData._get_route_from_steps *)

\* "; ".join(names)
RECURSIVE Join(_)
Join(names) ==
    IF names = <<>> THEN ""
    ELSE IF Len(names) = 1 THEN names[1]
    ELSE names[1] \o "; " \o Join(Tail(names))

\* the loop comparing a name with the previous step instead of the last
\* appended name
RECURSIVE RoadNames_previous_step(_, _, _)
RoadNames_previous_step(steps, i, road_names) ==
    IF i > Len(steps) THEN road_names
    ELSE LET road_name == steps[i].name
         IN  IF road_name # "-" /\ (i = 1 \/ steps[i - 1].name # road_name)
             THEN RoadNames_previous_step(steps, i + 1, Append(road_names, road_name))
             ELSE RoadNames_previous_step(steps, i + 1, road_names)

\* the loop dropping every name already in the list
RECURSIVE RoadNames_distinct(_, _, _)
RoadNames_distinct(steps, i, road_names) ==
    IF i > Len(steps) THEN road_names
    ELSE LET road_name == steps[i].name
         IN  IF road_name # "-"
                /\ \A k \in 1..Len(road_names) : road_names[k] # road_name
             THEN RoadNames_distinct(steps, i + 1, Append(road_names, road_name))
             ELSE RoadNames_distinct(steps, i + 1, road_names)

\* the for loop: road_names after the steps from index i on
RECURSIVE RoadNames(_, _, _)
RoadNames(steps, i, road_names) ==
    IF i > Len(steps) THEN road_names
    ELSE LET road_name == steps[i].name
         IN  IF road_name # "-"
                /\ (road_names = <<>> \/ road_names[Len(road_names)] # road_name)
             THEN RoadNames(steps, i + 1, Append(road_names, road_name))
             ELSE RoadNames(steps, i + 1, road_names)

GetRouteFromSteps(steps) == Join(RoadNames(steps, 1, <<>>))

-----------------------------------------------------------------------------
(* Location Resolver: OpenRouteTravelTimeSensor *)

\* hass.states.get(entity_id)
states_get(h, entity_id) ==
    IF entity_id \in DOMAIN h THEN h[entity_id] ELSE None

\* homeassistant.helpers.location.has_location(state), as the code uses it:
\* a State whose latitude and longitude attributes are both floats
has_location(state) ==
    /\ state # None
    /\ Val(state).attributes.latitude # None
    /\ Val(state).attributes.longitude # None

\* "{},{}".format(attr.get(ATTR_LATITUDE), attr.get(ATTR_LONGITUDE))
get_location_from_attributes(entity) ==
    FloatStr(Val(entity.attributes.latitude)) \o <<",">>
        \o FloatStr(Val(entity.attributes.longitude))

\* "zone.{}".format(entity.state)
ZoneIdOf(entity) == <<"zone", ".">> \o entity.state

\* the resolver without the zone lookup
get_location_from_entity_no_zone(h, entity_id) ==
    LET entity == states_get(h, entity_id)
    IN  IF entity = None THEN None
        ELSE IF has_location(entity)
             THEN Some(get_location_from_attributes(Val(entity)))
        ELSE IF StartsWith(entity_id, <<"sensor", ".">>)
             THEN Some(Val(entity).state)
             ELSE None

\* the resolver falling back to the raw state for every domain
get_location_from_entity_any_domain(h, entity_id) ==
    LET entity == states_get(h, entity_id)
    IN  IF entity = None THEN None
        ELSE IF has_location(entity)
             THEN Some(get_location_from_attributes(Val(entity)))
        ELSE LET zone_entity == states_get(h, ZoneIdOf(Val(entity)))
             IN  IF has_location(zone_entity)
                 THEN Some(get_location_from_attributes(Val(zone_entity)))
                 ELSE Some(Val(entity).state)

get_location_from_entity(h, entity_id) ==
    LET entity == states_get(h, entity_id)
    IN  IF entity = None THEN None
        ELSE IF has_location(entity)
             THEN Some(get_location_from_attributes(Val(entity)))
        ELSE LET zone_entity == states_get(h, ZoneIdOf(Val(entity)))
             IN  IF has_location(zone_entity)
                 THEN Some(get_location_from_attributes(Val(zone_entity)))
                 ELSE IF StartsWith(entity_id, <<"sensor", ".">>)
                      THEN Some(Val(entity).state)
                      ELSE None

\* the resolution keeping the previous location when the entity yields none
ResolveLocation_keep(entity_id, current, h) ==
    IF entity_id # None /\ get_location_from_entity(h, Val(entity_id)) # None
    THEN get_location_from_entity(h, Val(entity_id))
    ELSE current

\* async_update, one endpoint: the location field after the resolution
ResolveLocation(entity_id, current, h) ==
    IF entity_id # None
    THEN get_location_from_entity(h, Val(entity_id))
    ELSE current

-----------------------------------------------------------------------------
(* Travel Data Fetcher: OpenRouteTravelTimeData *)

\* OpenRouteTravelTimeData.__init__ as async_setup_platform calls it
DataInit(units) ==
    [origin |-> None, destination |-> None,
     travel_mode |-> TRAVEL_MODE_CAR, route_mode |-> ROUTE_MODE_FASTEST,
     attribution |-> None, duration |-> None, distance |-> None,
     route |-> None, base_time |-> None,
     origin_name |-> None, destination_name |-> None, units |-> units]

\* distance / 1609.344 or distance / 1000, as a fraction <<num, den>>
ConvertDistance(distance, units) ==
    IF units = CONF_UNIT_SYSTEM_IMPERIAL
    THEN <<distance * 1000, 1609344>>
    ELSE <<distance, 1000>>

\* list(location.split(","))[::-1]
Coords(loc) == Reverse(Split(loc, ","))

\* the assignments that follow the directions call
StoreDirections(d, directions_response) ==
    LET routes == directions_response.routes
        summary == routes[1].summary
        steps == routes[1].segments[1].steps
    IN  [d EXCEPT !.attribution = Some(directions_response.metadata.attribution),
                  !.duration = Some(summary.duration),
                  !.distance = Some(ConvertDistance(summary.distance, d.units)),
                  !.route = Some(GetRouteFromSteps(steps))]

\* the assignments that follow the two reverse geocode calls
StoreNames(d, reverse_destination_response, reverse_origin_response) ==
    [d EXCEPT !.origin_name =
                  Some(reverse_origin_response.features[1].properties.label),
              !.destination_name =
                  Some(reverse_destination_response.features[1].properties.label)]

DirectionsCall(d) ==
    [fn |-> "directions",
     args |-> <<Coords(Val(d.destination)), Coords(Val(d.origin))>>,
     profile |-> d.travel_mode, preference |-> d.route_mode]
ReverseCall(loc) ==
    [fn |-> "pelias_reverse", args |-> <<Coords(loc)>>,
     profile |-> "", preference |-> ""]

\* the body of update() when both locations are set: the directions call,
\* its assignments, the two reverse geocode calls, their assignments; the
\* remote call named by fail raises and ends it
Fetch(d, directions_response, reverse_destination_response, reverse_origin_response, fail) ==
    LET c1 == <<DirectionsCall(d)>>
        c2 == Append(c1, ReverseCall(Val(d.destination)))
        c3 == Append(c2, ReverseCall(Val(d.origin)))
        d1 == StoreDirections(d, directions_response)
    IN  IF fail = "directions"
        THEN [data |-> d, calls |-> c1, raised |-> TRUE]
        ELSE IF fail = "reverse_destination"
        THEN [data |-> d1, calls |-> c2, raised |-> TRUE]
        ELSE IF fail = "reverse_origin"
        THEN [data |-> d1, calls |-> c3, raised |-> TRUE]
        ELSE [data |-> StoreNames(d1, reverse_destination_response,
                                  reverse_origin_response),
              calls |-> c3, raised |-> FALSE]

\* update() that clears the result when a location is unset
update_clears(d, directions_response, reverse_destination_response, reverse_origin_response, fail) ==
    IF d.destination # None /\ d.origin # None
    THEN Fetch(d, directions_response, reverse_destination_response,
               reverse_origin_response, fail)
    ELSE [data |-> [d EXCEPT !.attribution = None, !.duration = None,
                             !.distance = None, !.route = None,
                             !.origin_name = None, !.destination_name = None],
          calls |-> <<>>, raised |-> FALSE]

\* update() that tests the destination alone and asks for directions from an
\* empty origin
update_destination_only(d, directions_response, reverse_destination_response, reverse_origin_response, fail) ==
    IF d.destination # None
    THEN IF d.origin # None
         THEN Fetch(d, directions_response, reverse_destination_response,
                    reverse_origin_response, fail)
         ELSE [data |-> d,
               calls |-> <<[fn |-> "directions",
                            args |-> <<Coords(Val(d.destination)), <<>>>>,
                            profile |-> d.travel_mode,
                            preference |-> d.route_mode]>>,
               raised |-> TRUE]
    ELSE [data |-> d, calls |-> <<>>, raised |-> FALSE]

\* update(): the data object, the remote calls made and whether an exception
\* left update()
update(d, directions_response, reverse_destination_response, reverse_origin_response, fail) ==
    IF d.destination # None /\ d.origin # None
    THEN Fetch(d, directions_response, reverse_destination_response,
               reverse_origin_response, fail)
    ELSE [data |-> d, calls |-> <<>>, raised |-> FALSE]

-----------------------------------------------------------------------------
(* What the host framework reads from the sensor *)

\* round(x / 60): Python rounds halves to the even neighbour
RoundMinutes(seconds) ==
    LET q == seconds \div 60
        r == seconds % 60
    IN  IF r < 30 THEN q
        ELSE IF r > 30 THEN q + 1
        ELSE IF q % 2 = 0 THEN q ELSE q + 1

\* OpenRouteTravelTimeSensor.state
State(d) ==
    IF d.duration # None
    THEN Some(ToString(RoundMinutes(Val(d.duration))))
    ELSE None

\* OpenRouteTravelTimeSensor.device_state_attributes
device_state_attributes(d) ==
    IF d.duration = None THEN None
    ELSE Some([attribution |-> d.attribution,
               duration |-> <<Val(d.duration), 60>>,
               distance |-> d.distance,
               route |-> d.route,
               unit_system |-> d.units,
               origin |-> d.origin,
               destination |-> d.destination,
               origin_name |-> d.origin_name,
               destination_name |-> d.destination_name,
               mode |-> d.travel_mode,
               route_mode |-> d.route_mode])

-----------------------------------------------------------------------------
(* The sensor as a state machine *)

\* OpenRouteTravelTimeSensor.__init__: is the location a trackable entity
IsTrackable(location) == SplitFirst(location, ".") \in TRACKABLE_DOMAINS

RouteIdle == steps_in = <<>> /\ road_names_out = <<>> /\ route_out = None
ConfigIdle ==
    /\ config = None
    /\ cfg_status = "idle"
    /\ setup_origin = None
    /\ setup_destination = None

\* async_setup_platform and __init__ for the configurations of the model;
\* no entity is known to hass yet
Init ==
    /\ \E origin \in OriginConfigs, destination \in DestinationConfigs,
          units \in UNITS :
          /\ origin_entity_id =
                 IF IsTrackable(origin) THEN Some(origin) ELSE None
          /\ destination_entity_id =
                 IF IsTrackable(destination) THEN Some(destination) ELSE None
          /\ data = [DataInit(units) EXCEPT
                        !.origin =
                            IF IsTrackable(origin) THEN None ELSE Some(origin),
                        !.destination =
                            IF IsTrackable(destination) THEN None
                            ELSE Some(destination)]
    /\ hass = [id \in EntityIds |-> None]
    /\ lastCalls = <<>>
    /\ raised = FALSE
    /\ op = "init"
    /\ RouteIdle
    /\ ConfigIdle

\* the entities whose state the sensor reads: the two references and the zone
ReadIds ==
    {ZoneId} \cup {Val(e) : e \in {origin_entity_id, destination_entity_id} \ {None}}

\* the host framework writes the state of an entity the sensor reads
set_state ==
    /\ \E id \in ReadIds :
          \E s \in StateValues(id), a \in AttrValues(id) :
             LET new == Some([entity_id |-> id, state |-> s, attributes |-> a])
             IN  /\ hass[id] # new
                 /\ hass' = [hass EXCEPT ![id] = new]
    /\ op' = "set_state"
    /\ UNCHANGED <<origin_entity_id, destination_entity_id, data, lastCalls,
                   raised, routeVars, configVars>>

\* the host framework removes an entity the sensor reads
remove_state ==
    /\ \E id \in ReadIds :
          /\ hass[id] # None
          /\ hass' = [hass EXCEPT ![id] = None]
    /\ op' = "remove_state"
    /\ UNCHANGED <<origin_entity_id, destination_entity_id, data, lastCalls,
                   raised, routeVars, configVars>>

\* one refresh cycle: OpenRouteTravelTimeSensor.async_update
async_update ==
    /\ \E directions_response \in DirectionsResponses,
          reverse_destination_response \in ReverseResponses,
          reverse_origin_response \in ReverseResponses,
          fail \in Failures :
          \E resolved \in
                 {[data EXCEPT
                      !.origin = ResolveLocation(origin_entity_id,
                                                 data.origin, hass),
                      !.destination = ResolveLocation(destination_entity_id,
                                                      data.destination, hass)]} :
             \E r \in {update(resolved, directions_response,
                              reverse_destination_response,
                              reverse_origin_response, fail)} :
                /\ data' = r.data
                /\ lastCalls' = r.calls
                /\ raised' = r.raised
    /\ op' = "async_update"
    /\ UNCHANGED <<hass, origin_entity_id, destination_entity_id, routeVars,
                   configVars>>

Next == set_state \/ remove_state \/ async_update

Spec == Init /\ [][Next]_vars

-----------------------------------------------------------------------------
(* _get_route_from_steps on its own, over every short step list *)

MaxSteps == 4
RoadNameValues == {"-", "Main St", "Oak Ave"}
StepValues == { [name |-> n] : n \in RoadNameValues }
ExampleSteps ==
    <<[name |-> "-"], [name |-> "Main St"], [name |-> "Main St"],
      [name |-> "Oak Ave"], [name |-> "-"], [name |-> "Oak Ave"]>>
StepLists ==
    UNION { [1..n -> StepValues] : n \in 0..MaxSteps } \cup {ExampleSteps}

SensorIdle ==
    /\ hass = [id \in EntityIds |-> None]
    /\ origin_entity_id = None
    /\ destination_entity_id = None
    /\ data = DataInit(CONF_UNIT_SYSTEM_METRIC)
    /\ lastCalls = <<>>
    /\ raised = FALSE
    /\ op = "idle"

InitRoute ==
    /\ steps_in \in StepLists
    /\ road_names_out = <<>>
    /\ route_out = None
    /\ SensorIdle
    /\ ConfigIdle

get_route_from_steps ==
    /\ route_out = None
    /\ road_names_out' = RoadNames(steps_in, 1, <<>>)
    /\ route_out' = Some(GetRouteFromSteps(steps_in))
    /\ UNCHANGED <<steps_in, sensorVars, configVars>>

NextRoute == get_route_from_steps

SpecRoute == InitRoute /\ [][NextRoute]_vars

-----------------------------------------------------------------------------
(* PLATFORM_SCHEMA and async_setup_platform *)

CONF_API_KEY == "api_key"
CONF_DESTINATION_LATITUDE == "destination_latitude"
CONF_DESTINATION_LONGITUDE == "destination_longitude"
CONF_DESTINATION_ENTITY_ID == "destination_entity_id"
CONF_ORIGIN_LATITUDE == "origin_latitude"
CONF_ORIGIN_LONGITUDE == "origin_longitude"
CONF_ORIGIN_ENTITY_ID == "origin_entity_id"
CONF_NAME == "name"
CONF_MODE == "mode"
CONF_ROUTE_MODE == "route_mode"
CONF_UNIT_SYSTEM == "unit_system"

\* the dict literal handed to PLATFORM_SCHEMA.extend, entry by entry in
\* source order: the marker, the key it wraps and the marker's group
SchemaLiteral ==
    <<[marker |-> "Required", key |-> CONF_API_KEY, group |-> ""],
      [marker |-> "Inclusive", key |-> CONF_DESTINATION_LATITUDE,
       group |-> "destination_coordinates"],
      [marker |-> "Inclusive", key |-> CONF_DESTINATION_LONGITUDE,
       group |-> "destination_coordinates"],
      [marker |-> "Exclusive", key |-> CONF_DESTINATION_LATITUDE,
       group |-> "destination"],
      [marker |-> "Exclusive", key |-> CONF_DESTINATION_ENTITY_ID,
       group |-> "destination"],
      [marker |-> "Inclusive", key |-> CONF_ORIGIN_LATITUDE,
       group |-> "origin_coordinates"],
      [marker |-> "Inclusive", key |-> CONF_ORIGIN_LONGITUDE,
       group |-> "origin_coordinates"],
      [marker |-> "Exclusive", key |-> CONF_ORIGIN_LATITUDE,
       group |-> "origin"],
      [marker |-> "Exclusive", key |-> CONF_ORIGIN_ENTITY_ID,
       group |-> "origin"],
      [marker |-> "Optional", key |-> CONF_NAME, group |-> ""],
      [marker |-> "Optional", key |-> CONF_MODE, group |-> ""],
      [marker |-> "Optional", key |-> CONF_ROUTE_MODE, group |-> ""],
      [marker |-> "Optional", key |-> CONF_UNIT_SYSTEM, group |-> ""]>>

\* the keys of the dict the literal builds. A voluptuous marker hashes and
\* compares as the key it wraps, so a later entry whose key equals an earlier
\* one replaces that entry's value and leaves its key object, the earlier
\* marker, in place.
SchemaKeys ==
    { SchemaLiteral[i] : i \in { j \in 1..Len(SchemaLiteral) :
          \A k \in 1..(j - 1) : SchemaLiteral[k].key # SchemaLiteral[j].key } }

SchemaGroups(marker) == { e.group : e \in { x \in SchemaKeys : x.marker = marker } }
GroupKeys(marker, group) ==
    { e.key : e \in { x \in SchemaKeys : x.marker = marker /\ x.group = group } }

\* cv.has_at_least_one_key(*keys)
has_at_least_one_key(keys, cfg) == \E k \in keys : k \in DOMAIN cfg

\* vol.Required: the key is there
RequiredOk(cfg) ==
    \A e \in SchemaKeys : e.marker = "Required" => e.key \in DOMAIN cfg

\* no key the schema does not name
ExtraOk(cfg) == \A k \in DOMAIN cfg : \E e \in SchemaKeys : e.key = k

\* vol.Exclusive: at most one key of a group of exclusion is there
ExclusiveOk(cfg) ==
    \A g \in SchemaGroups("Exclusive") :
        Cardinality(GroupKeys("Exclusive", g) \cap DOMAIN cfg) <= 1

\* vol.Inclusive: the keys of a group of inclusion are there all or none
InclusiveOk(cfg) ==
    \A g \in SchemaGroups("Inclusive") :
        \/ GroupKeys("Inclusive", g) \cap DOMAIN cfg = {}
        \/ GroupKeys("Inclusive", g) \subseteq DOMAIN cfg

\* PLATFORM_SCHEMA(config) does not raise; the values are valid ones
PLATFORM_SCHEMA(cfg) ==
    /\ has_at_least_one_key(
           {CONF_DESTINATION_LATITUDE, CONF_DESTINATION_ENTITY_ID}, cfg)
    /\ has_at_least_one_key({CONF_ORIGIN_LATITUDE, CONF_ORIGIN_ENTITY_ID}, cfg)
    /\ RequiredOk(cfg)
    /\ ExtraOk(cfg)
    /\ ExclusiveOk(cfg)
    /\ InclusiveOk(cfg)

\* the value each key carries when a configuration supplies it
ConfigValue(k) ==
    IF k = CONF_API_KEY THEN <<"key">>
    ELSE IF k = CONF_ORIGIN_LATITUDE THEN <<520>>
    ELSE IF k = CONF_ORIGIN_LONGITUDE THEN <<130>>
    ELSE IF k = CONF_ORIGIN_ENTITY_ID THEN TrackerId
    ELSE IF k = CONF_DESTINATION_LATITUDE THEN <<485>>
    ELSE IF k = CONF_DESTINATION_LONGITUDE THEN <<115>>
    ELSE ZoneId
ConfigKeys ==
    {CONF_API_KEY, CONF_ORIGIN_LATITUDE, CONF_ORIGIN_LONGITUDE,
     CONF_ORIGIN_ENTITY_ID, CONF_DESTINATION_LATITUDE,
     CONF_DESTINATION_LONGITUDE, CONF_DESTINATION_ENTITY_ID}
Configs == { [k \in ks |-> ConfigValue(k)] : ks \in SUBSET ConfigKeys }

\* async_setup_platform: the origin or destination handed to the sensor
SetupLocation(cfg, latitude, longitude, entity_id) ==
    IF latitude \in DOMAIN cfg
    THEN FloatStr(cfg[latitude][1]) \o <<",">> \o FloatStr(cfg[longitude][1])
    ELSE cfg[entity_id]

InitConfig ==
    /\ config \in { Some(c) : c \in Configs }
    /\ cfg_status = "new"
    /\ setup_origin = None
    /\ setup_destination = None
    /\ SensorIdle
    /\ RouteIdle

\* the host framework validates the configuration against PLATFORM_SCHEMA
validate ==
    /\ cfg_status = "new"
    /\ cfg_status' = IF PLATFORM_SCHEMA(Val(config)) THEN "accepted" ELSE "rejected"
    /\ UNCHANGED <<config, setup_origin, setup_destination, sensorVars, routeVars>>

\* and calls async_setup_platform with a configuration the schema accepted:
\* the sensor is built as __init__ builds it
async_setup_platform ==
    /\ cfg_status = "accepted"
    /\ cfg_status' = "setup"
    /\ \E origin \in {SetupLocation(Val(config), CONF_ORIGIN_LATITUDE,
                                    CONF_ORIGIN_LONGITUDE, CONF_ORIGIN_ENTITY_ID)},
          destination \in {SetupLocation(Val(config), CONF_DESTINATION_LATITUDE,
                                         CONF_DESTINATION_LONGITUDE,
                                         CONF_DESTINATION_ENTITY_ID)} :
          /\ setup_origin' = Some(origin)
          /\ setup_destination' = Some(destination)
          /\ origin_entity_id' =
                 IF IsTrackable(origin) THEN Some(origin) ELSE None
          /\ destination_entity_id' =
                 IF IsTrackable(destination) THEN Some(destination) ELSE None
          /\ data' = [data EXCEPT
                         !.origin =
                             IF IsTrackable(origin) THEN None ELSE Some(origin),
                         !.destination =
                             IF IsTrackable(destination) THEN None
                             ELSE Some(destination)]
    /\ UNCHANGED <<config, hass, lastCalls, raised, op, routeVars>>

NextConfig == validate \/ async_setup_platform

SpecConfig == InitConfig /\ [][NextConfig]_vars

-----------------------------------------------------------------------------
(* Properties *)

\* the Travel Result fields of the data object
ResultFields(d) ==
    <<d.duration, d.distance, d.route, d.attribution, d.origin_name,
      d.destination_name>>
AllPopulated(d) == \A i \in 1..Len(ResultFields(d)) : ResultFields(d)[i] # None
AllNone(d) == \A i \in 1..Len(ResultFields(d)) : ResultFields(d)[i] = None

\* the "lat,lon" string of a pair of coordinate attributes
LatLon(attributes) ==
    <<ToString(Val(attributes.latitude) \div 10), ".",
      ToString(Val(attributes.latitude) % 10), ",",
      ToString(Val(attributes.longitude) \div 10), ".",
      ToString(Val(attributes.longitude) % 10)>>
HasCoordinates(id) ==
    /\ id \in DOMAIN hass
    /\ hass[id] # None
    /\ hass[id][1].attributes.latitude # None
    /\ hass[id][1].attributes.longitude # None
Exists(ref) == ref # None /\ hass[Val(ref)] # None
Missing(ref) == ref # None /\ hass[Val(ref)] = None
\* the zone the state of the referenced entity names
ZoneOf(ref) == <<"zone", ".">> \o hass[Val(ref)][1].state

\* C1: in every reachable state the Travel Result fields are all populated
\* and the sensor state is defined, or all None and the sensor state is None.
C1_AllOrNothing ==
    \/ AllPopulated(data) /\ State(data) # None
    \/ AllNone(data) /\ State(data) = None

\* C2: a refresh cycle in which a remote call raises leaves every Travel
\* Result field as it was, and the fields change only in a cycle in which all
\* three calls were made and none raised.
C2_FailureLeavesResult ==
    [][/\ (op' = "async_update" /\ raised')
           => ResultFields(data)' = ResultFields(data)
       /\ ResultFields(data)' # ResultFields(data)
           => op' = "async_update" /\ ~raised' /\ Len(lastCalls') = 3]_vars

\* C3: update() called while origin or destination is None makes no remote
\* call and leaves every result field unchanged.
C3_UnsetLocationNoOp ==
    [][(op' = "async_update" /\ (data'.origin = None \/ data'.destination = None))
          => lastCalls' = <<>> /\ ResultFields(data)' = ResultFields(data)]_vars
\* a cycle was skipped for an unset origin while an earlier result is stored
C3_Witness ==
    /\ op = "async_update"
    /\ data.origin = None
    /\ data.destination # None
    /\ lastCalls = <<>>
    /\ AllPopulated(data)

\* C4 as stated: when a referenced entity does not exist at a refresh cycle,
\* async_update raises nothing and the location field keeps the value it had
\* before the cycle.
C4_MissingEntityKeepsLocation ==
    [][op' = "async_update"
          => /\ Missing(origin_entity_id)
                 => ~raised' /\ data'.origin = data.origin
             /\ Missing(destination_entity_id)
                 => ~raised' /\ data'.destination = data.destination]_vars
\* C4 amended: when a referenced entity does not exist at a refresh cycle,
\* async_update raises nothing, the location field is None after the cycle
\* whatever it held before, and the cycle makes no remote call and leaves the
\* result fields unchanged.
C4_MissingEntityUnsetsLocation ==
    [][op' = "async_update"
          => /\ Missing(origin_entity_id)
                 => /\ ~raised' /\ data'.origin = None /\ lastCalls' = <<>>
                    /\ ResultFields(data)' = ResultFields(data)
             /\ Missing(destination_entity_id)
                 => /\ ~raised' /\ data'.destination = None /\ lastCalls' = <<>>
                    /\ ResultFields(data)' = ResultFields(data)]_vars
\* the origin entity is gone after a cycle that had resolved it and fetched
C4_Witness ==
    /\ op = "async_update"
    /\ Missing(origin_entity_id)
    /\ data.origin = None
    /\ ~raised
    /\ AllPopulated(data)

\* C5 as stated: a reference whose state names a zone with coordinates
\* resolves to the zone's "lat,lon", also when the entity has coordinates of
\* its own.
C5_ZoneBeforeOwnCoordinates ==
    op = "async_update"
        => /\ (Exists(origin_entity_id) /\ HasCoordinates(ZoneOf(origin_entity_id)))
                => data.origin = Some(LatLon(hass[ZoneOf(origin_entity_id)][1].attributes))
           /\ (Exists(destination_entity_id)
                  /\ HasCoordinates(ZoneOf(destination_entity_id)))
                => data.destination =
                       Some(LatLon(hass[ZoneOf(destination_entity_id)][1].attributes))
\* C5 amended: a reference that has no coordinates of its own and whose state
\* names a zone with coordinates resolves to the zone's "lat,lon"; one that
\* has coordinates of its own resolves to its own "lat,lon".
C5_ZoneWhenNoOwnCoordinates ==
    op = "async_update"
        => /\ (Exists(origin_entity_id) /\ HasCoordinates(ZoneOf(origin_entity_id)))
                => data.origin =
                       IF HasCoordinates(Val(origin_entity_id))
                       THEN Some(LatLon(hass[Val(origin_entity_id)][1].attributes))
                       ELSE Some(LatLon(hass[ZoneOf(origin_entity_id)][1].attributes))
           /\ (Exists(destination_entity_id)
                  /\ HasCoordinates(ZoneOf(destination_entity_id)))
                => data.destination =
                       IF HasCoordinates(Val(destination_entity_id))
                       THEN Some(LatLon(hass[Val(destination_entity_id)][1].attributes))
                       ELSE Some(LatLon(hass[ZoneOf(destination_entity_id)][1].attributes))
\* the origin was resolved to the coordinates of the zone its state names
C5_Witness ==
    /\ op = "async_update"
    /\ Exists(origin_entity_id)
    /\ ~HasCoordinates(Val(origin_entity_id))
    /\ HasCoordinates(ZoneOf(origin_entity_id))
    /\ data.origin = Some(LatLon(AttrsZ))

\* the location the four cases of C8 give for an existing reference
ExpectedLocation(ref) ==
    IF HasCoordinates(Val(ref))
    THEN Some(LatLon(hass[Val(ref)][1].attributes))
    ELSE IF HasCoordinates(ZoneOf(ref))
    THEN Some(LatLon(hass[ZoneOf(ref)][1].attributes))
    ELSE IF Val(ref)[1] = "sensor" /\ Val(ref)[2] = "."
    THEN Some(hass[Val(ref)][1].state)
    ELSE None

\* C8: an existing reference resolves to its own "lat,lon" if it has
\* coordinates, else to the "lat,lon" of the zone its state names if that zone
\* exists and has coordinates, else to its raw state if and only if it is in
\* the sensor domain, else to None.
C8_ResolutionPriority ==
    op = "async_update"
        => /\ Exists(origin_entity_id)
                => data.origin = ExpectedLocation(origin_entity_id)
           /\ Exists(destination_entity_id)
                => data.destination = ExpectedLocation(destination_entity_id)
\* a sensor without coordinates or matching zone gave its raw state while the
\* zone reference without coordinates gave None
C8_Witness ==
    /\ op = "async_update"
    /\ origin_entity_id = Some(SensorId)
    /\ Exists(origin_entity_id)
    /\ data.origin = Some(<<"Berlin">>)
    /\ Exists(destination_entity_id)
    /\ data.destination = None

\* C10: once the sensor state is defined it stays defined: duration, state
\* and device_state_attributes are never None again.
C10_StateStaysDefined ==
    [][data.duration # None
          => /\ data'.duration # None
             /\ State(data)' # None
             /\ device_state_attributes(data)' # None]_vars
\* the state is defined and shown after a cycle that left the origin None
C10_Witness ==
    /\ op = "async_update"
    /\ data.origin = None
    /\ State(data) # None
    /\ device_state_attributes(data) # None
    /\ Val(device_state_attributes(data)).origin = None

\* C6 as stated: the example step list gives "Main St; Oak Ave; Oak Ave".
C6_ExampleKeepsRepeat ==
    (steps_in = ExampleSteps /\ route_out # None)
        => route_out = Some("Main St; Oak Ave; Oak Ave")
\* C6 amended: the example step list gives "Main St; Oak Ave": the "-" steps
\* are skipped, the adjacent "Main St" steps collapse, and the second "Oak
\* Ave", separated from the first by a "-" step alone, collapses too, since a
\* skipped step is not an appended name.
C6_ExampleRoute ==
    (steps_in = ExampleSteps /\ route_out # None)
        => route_out = Some("Main St; Oak Ave")
C6_Witness == steps_in = ExampleSteps /\ route_out = Some("Main St; Oak Ave")

\* the names of the steps that are not the sentinel, in step order
NamedSteps(steps) ==
    SelectSeq([i \in 1..Len(steps) |-> steps[i].name], LAMBDA n : n # "-")
\* a sequence without the elements equal to their predecessor
RECURSIVE Collapse(_)
Collapse(names) ==
    IF Len(names) <= 1 THEN names
    ELSE LET rest == Collapse(SubSeq(names, 1, Len(names) - 1))
         IN  IF names[Len(names)] = names[Len(names) - 1]
             THEN rest
             ELSE Append(rest, names[Len(names)])

\* C9: the route is the "; "-join of the step names in order without the
\* sentinel "-" and without a name equal to the last name appended; the
\* appended names hold no "-" and no two equal neighbours.
C9_RouteFromSteps ==
    route_out # None
        => /\ road_names_out = Collapse(NamedSteps(steps_in))
           /\ route_out = Some(Join(Collapse(NamedSteps(steps_in))))
           /\ \A i \in 1..Len(road_names_out) : road_names_out[i] # "-"
           /\ \A i \in 1..(Len(road_names_out) - 1) :
                  road_names_out[i] # road_names_out[i + 1]
\* a name appears twice in a route, another appended name between
C9_Witness ==
    /\ route_out = Some("Main St; Oak Ave; Main St")
    /\ Len(steps_in) = 4

\* the configuration supplies the coordinate pair, the entity id
HasPair(cfg, latitude, longitude) ==
    latitude \in DOMAIN cfg /\ longitude \in DOMAIN cfg
ExactlyOne(cfg, latitude, longitude, entity_id) ==
    HasPair(cfg, latitude, longitude) # (entity_id \in DOMAIN cfg)
ExactlyOnePerEndpoint(cfg) ==
    /\ ExactlyOne(cfg, CONF_ORIGIN_LATITUDE, CONF_ORIGIN_LONGITUDE,
                  CONF_ORIGIN_ENTITY_ID)
    /\ ExactlyOne(cfg, CONF_DESTINATION_LATITUDE, CONF_DESTINATION_LONGITUDE,
                  CONF_DESTINATION_ENTITY_ID)
\* a latitude comes with its longitude, and the api key is there
WellFormed(cfg) ==
    /\ CONF_API_KEY \in DOMAIN cfg
    /\ (CONF_ORIGIN_LATITUDE \in DOMAIN cfg) = (CONF_ORIGIN_LONGITUDE \in DOMAIN cfg)
    /\ (CONF_DESTINATION_LATITUDE \in DOMAIN cfg)
           = (CONF_DESTINATION_LONGITUDE \in DOMAIN cfg)

\* C7: a configuration is accepted, and reaches async_setup_platform, if and
\* only if it supplies exactly one of coordinate pair and entity id for each
\* endpoint; one supplying both, or neither, is rejected.
C7_ExactlyOnePerEndpoint ==
    /\ cfg_status \in {"accepted", "setup"} => ExactlyOnePerEndpoint(Val(config))
    /\ (cfg_status = "rejected" /\ WellFormed(Val(config)))
           => ~ExactlyOnePerEndpoint(Val(config))

====
